---- MODULE Spec2Model ----
(***************************************************************************)
(* node-file-transload: one source download teed into N upload streams     *)
(* (and optionally a local file), src/src/index.ts.                        *)
(*                                                                         *)
(* Every action is one event-loop callback of the program: the             *)
(* continuation of the source fetch, a 'data' / 'end' / 'error' event of   *)
(* the source body, the HTTP pump of an upload taking a chunk out of its   *)
(* PassThrough (with the 'drain' event that follows), an idle timer, the   *)
(* settling of an upload's promise (with its catch handler), the 'finish'  *)
(* event of the local file and the continuation of transload()'s await.    *)
(* Event emitters call their listeners synchronously, so a listener runs   *)
(* inside the action that emits.                                           *)
(***************************************************************************)
EXTENDS Integers, Sequences, FiniteSets, TLC

\* Number of chunks the source body delivers before it ends.
NumChunks == 3

\* highWaterMark of every upload PassThrough, in model bytes
\* (1024 * 1024 * 20 in the program).
HighWaterMark == 3

\* JavaScript undefined, for string-valued fields.
Undefined == "undefined"

\* An absent md5 (undefined); a digest is a one-element tuple, see Digest.
NoMd5 == <<>>

\* The TUploadConfig objects a caller may put in the list, by identity.
UploadConfigs == {1, 2}

\* upload.uploadUrl
ConfigUrl(o) == IF o = 1 THEN "https://u1" ELSE "https://u2"

\* upload.fileName (only the second object sets one)
ConfigFileName(o) == IF o = 1 THEN Undefined ELSE "test.zip"

\* upload.randomBytesCount (only the second object sets one; 0 is undefined)
ConfigRandomBytes(o) == IF o = 1 THEN 0 ELSE 1

\* chunk.byteLength of the k-th chunk of the source body.
ChunkLen(k) == IF k = 1 THEN 2 ELSE 1

RECURSIVE SumLen(_)
\* Total byteLength of a sequence of source chunks.
SumLen(s) == IF s = <<>> THEN 0 ELSE ChunkLen(Head(s)) + SumLen(Tail(s))

\* The chunks of the source body, in order.
SourceChunks == [k \in 1..NumChunks |-> k]

\* Number(response.headers.get('content-length')): the server announces the
\* length of the body it sends.
KnownLength == SumLen(SourceChunks)

\* path.basename(downloadUrl), no Content-Disposition header.
DerivedFileName == "5MB.zip"

\* crypto.randomBytes(n) of the upload at position i: a chunk of its own,
\* different from every source chunk and from every other upload's suffix.
RandomChunk(i) == 0 - i

VARIABLES
    inputs,          \* the uploads argument: a sequence of config objects
    saveToLocalPath, \* config.saveToLocalPath is set
    calculateMD5,    \* config.calculateMD5
    pc,              \* transload(): "start", "running", "returned", "thrown"
    uploads,         \* Uploads.uploads: sequence of UploadInternals
    body,            \* response.body: "none", "flowing", "paused", "ended", "errored"
    downloadAborted, \* abortController.signal.aborted of the download
    bytesDownloaded, \* bytesDownloaded
    emitted,         \* chunks the body has emitted in 'data' events
    md5Hash,         \* chunks fed to this.md5Hash
    md5Result,       \* this.md5Result
    fileStream,      \* "none", "open", "ended", "finished"
    fileWritten,     \* chunks handed to this.fileStream
    result,          \* <<>> or <<TResult>> returned by transload()
    signals          \* what the Uploads emitter emitted in the last callback

vars == <<inputs, saveToLocalPath, calculateMD5, pc, uploads, body,
          downloadAborted, bytesDownloaded, emitted, md5Hash, md5Result,
          fileStream, fileWritten, result, signals>>

config == <<inputs, saveToLocalPath, calculateMD5>>

Legs == 1..Len(uploads)

(***************************************************************************)
(* crypto md5: the digest determines the bytes that were fed.              *)
(***************************************************************************)
Digest(fed) == <<fed>>

(***************************************************************************)
(* UploadInternals                                                         *)
(***************************************************************************)

\* uploads.indexOf(upload): position (0-based) of the first element of the
\* list that is this very object.
IndexOf(list, o) == (CHOOSE j \in 1..Len(list) :
                        /\ list[j] = o
                        /\ \A k \in 1..(j - 1) : list[k] # o) - 1

\* new UploadInternals(upload, index, config)
NewUpload(o, index) ==
    [ index            |-> index,
      uploadUrl        |-> ConfigUrl(o),
      fileName         |-> ConfigFileName(o),
      randomBytesCount |-> ConfigRandomBytes(o),
      size             |-> 0,        \* undefined, read as `size || 0`
      uploadedByes     |-> 0,
      md5Fed           |-> <<>>,     \* chunks fed to _md5Hash
      md5Result        |-> NoMd5,
      aborted          |-> FALSE,    \* _abortController.signal.aborted
      timer            |-> FALSE,    \* _timeoutId is a pending timeout
      written          |-> <<>>,     \* chunks the stream accepted
      consumed         |-> 0,        \* chunks the HTTP body has taken out
      needDrain        |-> FALSE,    \* stream owes a 'drain' event
      ended            |-> FALSE,    \* stream.end() was called
      destroyed        |-> FALSE,    \* stream.destroyed
      promise          |-> "pending",\* state of getPromise()'s promise
      result           |-> <<>> ]    \* <<TUploadResult>> once settled

\* Bytes of one chunk as written to upload u (its random suffix has
\* randomBytesCount bytes).
ByteLength(u, c) == IF c < 0 THEN u.randomBytesCount ELSE ChunkLen(c)

RECURSIVE Buffered(_, _)
\* Bytes in the stream of u that the HTTP body has not taken out yet,
\* counting from position n of u.written.
Buffered(u, n) ==
    IF n > Len(u.written) THEN 0
    ELSE ByteLength(u, u.written[n]) + Buffered(u, n + 1)

\* writableLength of the stream.
Occupancy(u) == Buffered(u, u.consumed + 1)

abort(u) == [u EXCEPT !.aborted = TRUE]

resetTimeout(u) == [u EXCEPT !.timer = TRUE]

clearTimeout(u) == [u EXCEPT !.timer = FALSE]

setSize(u, size) == [u EXCEPT !.size = size + u.randomBytesCount]

setFilename(u, filename) ==
    IF u.fileName = Undefined THEN [u EXCEPT !.fileName = filename] ELSE u

isStreamAlive(u) == ~u.destroyed

\* stream.write(chunk) returns true while the buffer stays below the
\* highWaterMark; a destroyed or ended stream takes nothing.
StreamCanWrite(u, c) ==
    /\ ~u.destroyed
    /\ ~u.ended
    /\ Occupancy(u) + ByteLength(u, c) < HighWaterMark

\* stream.write(chunk): the chunk is buffered whatever write returns; a
\* false return makes the stream owe a 'drain'.
StreamWrite(u, c) ==
    IF u.destroyed \/ u.ended THEN u
    ELSE [u EXCEPT !.written = Append(@, c),
                   !.needDrain = @ \/ ~StreamCanWrite(u, c)]

\* stream.destroy(): the buffer is dropped, no 'drain' will come.
StreamDestroy(u) == [u EXCEPT !.destroyed = TRUE, !.needDrain = FALSE]

\* _md5Hash?.update(chunk)
HashUpdate(u, c) ==
    IF calculateMD5 THEN [u EXCEPT !.md5Fed = Append(@, c)] ELSE u

\* Mutant: writeToStream counts only the chunks the stream took without
\* overflowing.
writeToStreamCountsAccepted(u, c) ==
    StreamWrite(HashUpdate(IF StreamCanWrite(u, c)
                           THEN [u EXCEPT !.uploadedByes = @ + ByteLength(u, c)]
                           ELSE u, c), c)

\* The state of u after writeToStream(chunk).
writeToStream(u, c) ==
    StreamWrite(HashUpdate([u EXCEPT !.uploadedByes = @ + ByteLength(u, c)], c), c)

\* Mutant: the random suffix is written to the stream but neither hashed
\* nor counted.
finalizeUploadSuffixUncounted(u, i) ==
    LET c == RandomChunk(i)
        w == IF u.randomBytesCount # 0 THEN StreamWrite(u, c) ELSE u
        d == [w EXCEPT !.md5Result = IF calculateMD5 THEN Digest(w.md5Fed)
                                     ELSE NoMd5]
    IN  [clearTimeout(d) EXCEPT !.ended = TRUE]

\* The state of u after finalizeUpload() and the stream.end() that
\* finalizeAll calls next.
finalizeUpload(u, i) ==
    LET c == RandomChunk(i)
        w == IF u.randomBytesCount # 0
             THEN [HashUpdate(StreamWrite(u, c), c)
                       EXCEPT !.uploadedByes = @ + ByteLength(u, c)]
             ELSE u
        d == [w EXCEPT !.md5Result = IF calculateMD5 THEN Digest(w.md5Fed)
                                     ELSE NoMd5]
    IN  [clearTimeout(d) EXCEPT !.ended = TRUE]

\* The TUploadResult getResult(response, error) returns.
UploadResult(u, response, error) ==
    [ uploadUrl        |-> u.uploadUrl,
      fileName         |-> u.fileName,
      size             |-> u.size,
      uploadedByes     |-> u.uploadedByes,
      randomBytesCount |-> u.randomBytesCount,
      md5              |-> u.md5Result,
      response         |-> response,
      error            |-> error ]

\* Mutant: getResult leaves the idle timer as it is.
getResultKeepsTimer(u, response, error, settled) ==
    [StreamDestroy(u)
        EXCEPT !.promise = settled,
               !.result = <<UploadResult(u, response, error)>>]

\* The state of u after getResult(response, error) settled its promise.
getResult(u, response, error, settled) ==
    [StreamDestroy(clearTimeout(u))
        EXCEPT !.promise = settled,
               !.result = <<UploadResult(u, response, error)>>]

(***************************************************************************)
(* Uploads                                                                 *)
(***************************************************************************)

\* new Uploads(uploads, config)
NewUploads(list) ==
    [i \in 1..Len(list) |-> NewUpload(list[i], IndexOf(list, list[i]))]

\* Uploads.setSize then Uploads.setFilename
SetSizeAndFilename(us, size, filename) ==
    [i \in 1..Len(us) |-> setFilename(resetTimeout(setSize(us[i], size)), filename)]

\* Mutant: an upload whose stream cannot take the chunk without overflowing
\* is not given it.
WriteOneDropsWhenFull(u, c) ==
    IF ~isStreamAlive(u) THEN u
    ELSE IF StreamCanWrite(u, c) THEN resetTimeout(writeToStream(u, c))
         ELSE clearTimeout(u)

\* One iteration of the loop of Uploads.write.
WriteOne(u, c) ==
    IF ~isStreamAlive(u) THEN u
    ELSE IF StreamCanWrite(u, c) THEN resetTimeout(writeToStream(u, c))
         ELSE clearTimeout(writeToStream(u, c))

\* Uploads.write(chunk): the uploads after the loop.
Write(us, c) == [i \in 1..Len(us) |-> WriteOne(us[i], c)]

\* Uploads.write(chunk) emitted 'stuck' for some upload.
WriteEmitsStuck(us, c) ==
    \E i \in 1..Len(us) : isStreamAlive(us[i]) /\ ~StreamCanWrite(us[i], c)

RECURSIVE StuckSignals(_, _, _)
\* The 'stuck' signals Uploads.write(chunk) emits, in the order of its
\* loop, from upload i on.
StuckSignals(us, c, i) ==
    IF i > Len(us) THEN <<>>
    ELSE (IF isStreamAlive(us[i]) /\ ~StreamCanWrite(us[i], c)
          THEN <<[type |-> "stuck", index |-> us[i].index]>>
          ELSE <<>>) \o StuckSignals(us, c, i + 1)

\* Uploads.destroyAll(error)
destroyAll(us) == [i \in 1..Len(us) |-> StreamDestroy(abort(us[i]))]

\* Uploads.finalizeAll()
finalizeAll(us) == [i \in 1..Len(us) |-> finalizeUpload(us[i], i)]

\* Uploads.isAllStreamsUnusable()
isAllStreamsUnusable(us) == \A i \in 1..Len(us) : ~isStreamAlive(us[i])

(***************************************************************************)
(* Transload: the listeners transload() installs.  A listener takes and    *)
(* returns the part of the state listeners touch.                          *)
(***************************************************************************)
Session == [uploads |-> uploads, body |-> body, aborted |-> downloadAborted,
            signals |-> <<>>]

\* this.emit(type, index) of the Uploads emitter, as recorded in signals
\* ('unusable' carries no index: -1).
Signal(type, index) == [type |-> type, index |-> index]

\* this.emit(type, index): the record of it; its listener runs next.
Emit(s, type, index) == [s EXCEPT !.signals = Append(@, Signal(type, index))]

\* response.body.resume()
Resume(b) == IF b = "paused" THEN "flowing" ELSE b

\* response.body.pause()
Pause(b) == IF b = "flowing" THEN "paused" ELSE b

\* uploads.on('unstuck')
OnUnstuck(s) == [s EXCEPT !.body = Resume(@)]

\* Mutant: the 'stuck' listener leaves the download flowing.
OnStuckKeepsFlowing(s) == s

\* uploads.on('stuck')
OnStuck(s) == [s EXCEPT !.body = Pause(@)]

\* response.body.on('error')
OnBodyError(s) ==
    [s EXCEPT !.uploads = destroyAll(@), !.aborted = TRUE, !.body = "errored"]

\* abortController.abort() of the download: while the body is open the
\* fetch library emits the abort as an 'error' on response.body.
AbortDownload(s) ==
    IF s.body \in {"flowing", "paused"}
    THEN OnBodyError([s EXCEPT !.aborted = TRUE])
    ELSE [s EXCEPT !.aborted = TRUE]

\* Mutant: the 'unusable' listener resumes the download whatever the config.
OnUnusableResumes(s) == [s EXCEPT !.body = Resume(@)]

\* Mutant: the 'unusable' listener aborts the download whatever the config.
OnUnusableAborts(s) == AbortDownload(s)

\* uploads.on('unusable')
OnUnusable(s) ==
    IF saveToLocalPath THEN [s EXCEPT !.body = Resume(@)] ELSE AbortDownload(s)

\* Mutant: the catch handler tears every upload down when one fails.
OnUploadRejectedDestroysAll(s, i) ==
    OnUnusable([s EXCEPT !.uploads = destroyAll(@)])

\* Mutant: the catch handler emits 'unstuck' whatever is left alive.
OnUploadRejectedAlwaysUnstuck(s, i) ==
    LET t == [s EXCEPT !.uploads[i] = StreamDestroy(@)]
    IN  OnUnstuck(Emit(t, "unstuck", t.uploads[i].index))

\* The catch handler getPromises() puts on the promise of upload i.
OnUploadRejected(s, i) ==
    LET t == [s EXCEPT !.uploads[i] = StreamDestroy(@)]
    IN  IF isAllStreamsUnusable(t.uploads)
        THEN OnUnusable(Emit(t, "unusable", 0 - 1))
        ELSE OnUnstuck(Emit(t, "unstuck", t.uploads[i].index))

\* Mutant: the 'drain' listener re-arms the idle timer of the upload.
OnDrainRearms(s, i) ==
    [OnUnstuck(Emit(s, "unstuck", s.uploads[i].index))
        EXCEPT !.uploads[i] = resetTimeout(@)]

\* The 'drain' listener the Uploads constructor puts on the stream of
\* upload i.
OnDrain(s, i) ==
    [OnUnstuck(Emit(s, "unstuck", s.uploads[i].index))
        EXCEPT !.uploads[i] = clearTimeout(@)]

\* What resolve() gets of a response: JSON.parse(body), or body itself.
ResponseBody == "body"

\* The error messages a rejected upload can carry.
AbortMessage == "The user aborted a request."
FetchMessage == "request failed"

\* Promise continuations run before the next event: an upload whose abort
\* signal fired while its fetch was pending rejects before anything else.
AbortPending(i) == uploads[i].aborted /\ uploads[i].promise = "pending"

NoAbortPending == \A i \in Legs : ~AbortPending(i)

Started == pc \in {"running", "returned"}

AllSettled == \A i \in Legs : uploads[i].promise # "pending"

\* Promise.all([uploadPromises, fileStreamPromise]) has resolved and
\* transload() has not resumed yet: its continuation is a microtask, which
\* runs before any further event of the download.
ReturnPending ==
    /\ pc = "running"
    /\ AllSettled
    /\ saveToLocalPath => fileStream = "finished"

Install(s) ==
    /\ uploads' = s.uploads
    /\ body' = s.body
    /\ downloadAborted' = s.aborted
    /\ signals' = s.signals

(***************************************************************************)
(* Initial state: the Transload object just constructed.                   *)
(***************************************************************************)
\* The uploads arguments considered: every list of one or two of the config
\* objects, the same object twice included.  (With the lists <<1, 2, 1>> and
\* <<2, 2, 1>> in place of these the state space is 2.1 million states; the
\* invariants C3, C6, C7, C9, C10 and the action property C5 hold there too.)
InputLists == {<<1>>, <<2>>, <<1, 1>>, <<1, 2>>, <<2, 1>>, <<2, 2>>}

Init ==
    /\ inputs \in InputLists
    /\ saveToLocalPath \in BOOLEAN
    /\ calculateMD5 \in BOOLEAN
    /\ pc = "start"
    /\ uploads = NewUploads(inputs)
    /\ body = "none"
    /\ downloadAborted = FALSE
    /\ bytesDownloaded = 0
    /\ emitted = <<>>
    /\ md5Hash = <<>>
    /\ md5Result = NoMd5
    /\ fileStream = "none"
    /\ fileWritten = <<>>
    /\ result = <<>>
    /\ signals = <<>>

(***************************************************************************)
(* Actions                                                                 *)
(***************************************************************************)

\* Mutant: the catch of transload() logs the error and does not rethrow.
DownloadFailsSwallowed ==
    /\ pc = "start"
    /\ pc' = "returned"
    /\ signals' = <<>>
    /\ UNCHANGED <<config, uploads, body, downloadAborted, bytesDownloaded,
                   emitted, md5Hash, md5Result, fileStream, fileWritten, result>>

\* The fetch of downloadUrl rejects: the catch of transload() rethrows.
DownloadFails ==
    /\ pc = "start"
    /\ pc' = "thrown"
    /\ signals' = <<>>
    /\ UNCHANGED <<config, uploads, body, downloadAborted, bytesDownloaded,
                   emitted, md5Hash, md5Result, fileStream, fileWritten, result>>

\* The fetch of downloadUrl resolves: transload() runs up to its await of
\* the upload promises.
DownloadOpens ==
    /\ pc = "start"
    /\ pc' = "running"
    /\ uploads' = SetSizeAndFilename(uploads, KnownLength, DerivedFileName)
    /\ body' = "flowing"
    /\ fileStream' = IF saveToLocalPath THEN "open" ELSE "none"
    /\ signals' = <<>>
    /\ UNCHANGED <<config, downloadAborted, bytesDownloaded, emitted, md5Hash,
                   md5Result, fileWritten, result>>

\* Mutant: the chunk goes to the local file only when no upload is stuck.
BodyDataSavesWhenNoneStuck ==
    /\ Started
    /\ NoAbortPending
    /\ ~ReturnPending
    /\ body = "flowing"
    /\ Len(emitted) < NumChunks
    /\ LET c == SourceChunks[Len(emitted) + 1]
           s == [Session EXCEPT !.uploads = Write(@, c),
                                !.signals = StuckSignals(uploads, c, 1)]
       IN  /\ emitted' = Append(emitted, c)
           /\ bytesDownloaded' = bytesDownloaded + ChunkLen(c)
           /\ md5Hash' = IF calculateMD5 THEN Append(md5Hash, c) ELSE md5Hash
           /\ Install(IF WriteEmitsStuck(uploads, c) THEN OnStuck(s) ELSE s)
           /\ fileWritten' = IF fileStream = "open" /\ ~WriteEmitsStuck(uploads, c)
                             THEN Append(fileWritten, c)
                             ELSE fileWritten
    /\ UNCHANGED <<config, pc, md5Result, fileStream, result>>

\* response.body 'data'
BodyData ==
    /\ Started
    /\ NoAbortPending
    /\ ~ReturnPending
    /\ body = "flowing"
    /\ Len(emitted) < NumChunks
    /\ LET c == SourceChunks[Len(emitted) + 1]
           s == [Session EXCEPT !.uploads = Write(@, c),
                                !.signals = StuckSignals(uploads, c, 1)]
       IN  /\ emitted' = Append(emitted, c)
           /\ bytesDownloaded' = bytesDownloaded + ChunkLen(c)
           /\ md5Hash' = IF calculateMD5 THEN Append(md5Hash, c) ELSE md5Hash
           /\ Install(IF WriteEmitsStuck(uploads, c) THEN OnStuck(s) ELSE s)
           /\ fileWritten' = IF fileStream = "open" THEN Append(fileWritten, c)
                             ELSE fileWritten
    /\ UNCHANGED <<config, pc, md5Result, fileStream, result>>

\* response.body 'end'
BodyEnd ==
    /\ Started
    /\ NoAbortPending
    /\ ~ReturnPending
    /\ body = "flowing"
    /\ Len(emitted) = NumChunks
    /\ body' = "ended"
    /\ uploads' = finalizeAll(uploads)
    /\ fileStream' = IF fileStream = "open" THEN "ended" ELSE fileStream
    /\ md5Result' = IF calculateMD5 THEN Digest(md5Hash) ELSE NoMd5
    /\ signals' = <<>>
    /\ UNCHANGED <<config, pc, downloadAborted, bytesDownloaded, emitted,
                   md5Hash, fileWritten, result>>

\* response.body 'error': the download breaks while its body is open.
BodyError ==
    /\ Started
    /\ NoAbortPending
    /\ ~ReturnPending
    /\ body \in {"flowing", "paused"}
    /\ Install(OnBodyError(Session))
    /\ UNCHANGED <<config, pc, bytesDownloaded, emitted, md5Hash, md5Result,
                   fileStream, fileWritten, result>>

\* The HTTP request of upload i takes the next chunk out of the stream; a
\* stream that owes a 'drain' emits it when its buffer is empty, unless it
\* was ended.
UploadReads(i) ==
    /\ Started
    /\ NoAbortPending
    /\ uploads[i].promise = "pending"
    /\ ~uploads[i].destroyed
    /\ uploads[i].consumed < Len(uploads[i].written)
    /\ LET u == [uploads[i] EXCEPT !.consumed = @ + 1]
           s == [Session EXCEPT !.uploads[i] = u]
       IN  IF u.needDrain /\ ~u.ended /\ Occupancy(u) = 0
           THEN Install(OnDrain([s EXCEPT !.uploads[i].needDrain = FALSE], i))
           ELSE Install(s)
    /\ UNCHANGED <<config, pc, bytesDownloaded, emitted, md5Hash, md5Result,
                   fileStream, fileWritten, result>>

\* Mutant: the idle timer of upload i aborts every upload.
TimerFiresAbortsAll(i) ==
    /\ Started
    /\ NoAbortPending
    /\ uploads[i].timer
    /\ uploads' = [j \in Legs |->
                      abort(IF j = i THEN [uploads[j] EXCEPT !.timer = FALSE]
                            ELSE uploads[j])]
    /\ signals' = <<>>
    /\ UNCHANGED <<config, pc, body, downloadAborted, bytesDownloaded, emitted,
                   md5Hash, md5Result, fileStream, fileWritten, result>>

\* The idle timer of upload i fires: resetTimeout's callback.
TimerFires(i) ==
    /\ Started
    /\ NoAbortPending
    /\ uploads[i].timer
    /\ uploads' = [uploads EXCEPT ![i] = abort([@ EXCEPT !.timer = FALSE])]
    /\ signals' = <<>>
    /\ UNCHANGED <<config, pc, body, downloadAborted, bytesDownloaded, emitted,
                   md5Hash, md5Result, fileStream, fileWritten, result>>

\* The fetch of upload i resolved and its response text was read: the
\* promise of getPromise() resolves, whatever the HTTP status and however
\* much of the body the server took.
UploadResolves(i) ==
    /\ pc = "running"
    /\ NoAbortPending
    /\ uploads[i].promise = "pending"
    /\ uploads' = [uploads EXCEPT
                      ![i] = getResult(@, ResponseBody, Undefined, "fulfilled")]
    /\ signals' = <<>>
    /\ UNCHANGED <<config, pc, body, downloadAborted, bytesDownloaded, emitted,
                   md5Hash, md5Result, fileStream, fileWritten, result>>

\* The fetch of upload i rejects (network error, or its abort signal
\* fired): the promise of getPromise() rejects and the catch handler of
\* getPromises() runs.
UploadRejects(i) ==
    /\ pc = "running"
    /\ uploads[i].promise = "pending"
    /\ AbortPending(i) \/ NoAbortPending
    /\ LET msg == IF uploads[i].aborted THEN AbortMessage ELSE FetchMessage
           s == [Session EXCEPT
                    !.uploads[i] = getResult(@, "null", msg, "rejected")]
       IN  Install(OnUploadRejected(s, i))
    /\ UNCHANGED <<config, pc, bytesDownloaded, emitted, md5Hash, md5Result,
                   fileStream, fileWritten, result>>

\* fileStream 'finish'
FileFinishes ==
    /\ fileStream = "ended"
    /\ fileStream' = "finished"
    /\ signals' = <<>>
    /\ UNCHANGED <<config, pc, uploads, body, downloadAborted, bytesDownloaded,
                   emitted, md5Hash, md5Result, fileWritten, result>>

\* Mutant: the session md5 is digested when the result is built, from
\* whatever was hashed by then.
TransloadResultDigestsAtReturn ==
    [ url      |-> "downloadUrl",
      size     |-> KnownLength,
      filename |-> DerivedFileName,
      md5      |-> IF calculateMD5 THEN Digest(md5Hash) ELSE NoMd5,
      local    |-> IF saveToLocalPath
                   THEN <<[path |-> "saveToLocalPath", size |-> SumLen(fileWritten)]>>
                   ELSE <<>>,
      uploads  |-> [i \in Legs |-> uploads[i].result[1]] ]

\* Mutant: the upload results are collected last upload first.
TransloadResultLastFirst ==
    [ url      |-> "downloadUrl",
      size     |-> KnownLength,
      filename |-> DerivedFileName,
      md5      |-> md5Result,
      local    |-> IF saveToLocalPath
                   THEN <<[path |-> "saveToLocalPath", size |-> SumLen(fileWritten)]>>
                   ELSE <<>>,
      uploads  |-> [i \in Legs |-> uploads[Len(uploads) + 1 - i].result[1]] ]

\* The TResult transload() returns.
TransloadResult ==
    [ url      |-> "downloadUrl",
      size     |-> KnownLength,
      filename |-> DerivedFileName,
      md5      |-> md5Result,
      local    |-> IF saveToLocalPath
                   THEN <<[path |-> "saveToLocalPath", size |-> SumLen(fileWritten)]>>
                   ELSE <<>>,
      uploads  |-> [i \in Legs |-> uploads[i].result[1]] ]

\* Promise.all([uploadPromises, fileStreamPromise]) resolves and
\* transload() returns.
Return ==
    /\ ReturnPending
    /\ pc' = "returned"
    /\ result' = <<TransloadResult>>
    /\ signals' = <<>>
    /\ UNCHANGED <<config, uploads, body, downloadAborted, bytesDownloaded,
                   emitted, md5Hash, md5Result, fileStream, fileWritten>>

Next ==
    \/ DownloadFails
    \/ DownloadOpens
    \/ BodyData
    \/ BodyEnd
    \/ BodyError
    \/ \E i \in Legs : UploadReads(i)
    \/ \E i \in Legs : TimerFires(i)
    \/ \E i \in Legs : UploadResolves(i)
    \/ \E i \in Legs : UploadRejects(i)
    \/ FileFinishes
    \/ Return

Spec == Init /\ [][Next]_vars

(***************************************************************************)
(* Properties                                                              *)
(***************************************************************************)
Rejected(i) == uploads[i].promise = "rejected"

Fulfilled(i) == uploads[i].promise = "fulfilled"

AllRejected == \A i \in Legs : Rejected(i)

\* s is an initial segment of t.
IsPrefix(s, t) == Len(s) <= Len(t) /\ \A k \in 1..Len(s) : s[k] = t[k]

\* The chunks of w that came from the source (not a random suffix).
SourcePart(w) == SelectSeq(w, LAMBDA c : c > 0)

\* C1: once the download has opened and every upload promise has settled,
\* transload() is not left waiting for good: some event can still happen
\* that brings its return nearer.
C1_ReturnsOnceLegsSettled ==
    (pc = "running" /\ AllSettled) => ENABLED Next

\* C2: after an 'error' of the source body every upload is aborted and its
\* stream destroyed, an upload still pending can only reject, a rejected
\* upload carries an error message, transload() is not left waiting for
\* good, and the result it returns has no md5 -- with or without
\* saveToLocalPath.
C2_SourceErrorStillResolves ==
    body = "errored" =>
        /\ \A i \in Legs :
              /\ uploads[i].aborted /\ uploads[i].destroyed
              /\ uploads[i].promise = "pending" => ~ENABLED UploadResolves(i)
              /\ Rejected(i) => uploads[i].result[1].error # Undefined
        /\ pc # "thrown"
        /\ pc = "running" => ENABLED Next
        /\ pc = "returned" => result[1].md5 = NoMd5

Stalled(u) == isStreamAlive(u) /\ u.needDrain

\* C4: the source is resumed only when no live upload is stalled, and no
\* chunk is broadcast while a live upload is stalled.
C4_ResumeOnlyWhenNoneStalled ==
    [][ /\ (body = "paused" /\ body' = "flowing")
            => \A i \in Legs : ~Stalled(uploads'[i])
        /\ emitted' # emitted
            => \A i \in Legs : ~Stalled(uploads[i]) ]_vars

\* Upload j fails in this step: its promise goes from pending to rejected.
FailureStep(j) ==
    uploads[j].promise = "pending" /\ uploads'[j].promise = "rejected"

\* The buffer, counter, hash and timer of an upload are the same after the
\* step as before.
SameStreamAndCounters(i) ==
    /\ uploads'[i].written = uploads[i].written
    /\ uploads'[i].consumed = uploads[i].consumed
    /\ uploads'[i].needDrain = uploads[i].needDrain
    /\ uploads'[i].ended = uploads[i].ended
    /\ uploads'[i].destroyed = uploads[i].destroyed
    /\ uploads'[i].uploadedByes = uploads[i].uploadedByes
    /\ uploads'[i].md5Fed = uploads[i].md5Fed
    /\ uploads'[i].md5Result = uploads[i].md5Result
    /\ uploads'[i].timer = uploads[i].timer

\* Every live upload gets the chunk of a 'data' event, and is finalized
\* (suffix written when it has one, stream ended) at the 'end' event.
SurvivorsServed ==
    /\ emitted' # emitted =>
          \A i \in Legs : isStreamAlive(uploads[i]) =>
              /\ uploads'[i].written =
                     Append(uploads[i].written, emitted'[Len(emitted')])
              /\ uploads'[i].uploadedByes =
                     uploads[i].uploadedByes + ChunkLen(emitted'[Len(emitted')])
    /\ (body # "ended" /\ body' = "ended") =>
          \A i \in Legs : isStreamAlive(uploads[i]) =>
              /\ uploads'[i].ended
              /\ uploads[i].randomBytesCount # 0 =>
                     uploads'[i].written =
                         Append(uploads[i].written, RandomChunk(i))

\* C5 as stated: the failure of one upload leaves every other upload's
\* buffer, uploadedByes, hash, timer and abort handle as they were, and the
\* live uploads keep getting every chunk and are finalized at source end.
C5_FailureTouchesNoOtherLeg ==
    [][ /\ \A j \in Legs : FailureStep(j) =>
              \A i \in Legs \ {j} :
                  /\ SameStreamAndCounters(i)
                  /\ uploads'[i].aborted = uploads[i].aborted
        /\ SurvivorsServed ]_vars

\* C5 amended: the same, except that the abort handle is only promised to
\* stay as it was for the other uploads that are still alive (the failure
\* of the last live upload without saveToLocalPath cancels the download,
\* whose 'error' aborts every upload, all of them dead by then).
C5_FailureTouchesNoLiveLeg ==
    [][ /\ \A j \in Legs : FailureStep(j) =>
              \A i \in Legs \ {j} :
                  /\ SameStreamAndCounters(i)
                  /\ isStreamAlive(uploads[i]) =>
                         uploads'[i].aborted = uploads[i].aborted
        /\ SurvivorsServed ]_vars

\* C5 witness: the first upload failed on its own before the source ended,
\* the second one got every chunk after that and was finalized.
C5_Witness ==
    /\ Len(uploads) = 2
    /\ Rejected(1)
    /\ uploads[1].result[1].error = FetchMessage
    /\ Len(uploads[1].written) < NumChunks
    /\ ~uploads[2].aborted
    /\ uploads[2].ended
    /\ SourcePart(uploads[2].written) = SourceChunks

\* C6: when every upload has failed and saveToLocalPath is not set, the
\* download is aborted and its body no longer open, transload() can return,
\* and the result it returns carries an error for every upload.
C6_AllFailedNoSaveAborts ==
    (Started /\ ~saveToLocalPath /\ AllRejected) =>
        /\ downloadAborted
        /\ body \in {"errored", "ended"}
        /\ pc = "running" => ENABLED Return
        /\ pc = "returned" =>
              \A i \in Legs : result[1].uploads[i].error # Undefined

\* C6 witness: every upload failed on its own while the source was still
\* sending, the download was aborted and transload() has returned.
C6_Witness ==
    /\ pc = "returned"
    /\ ~saveToLocalPath
    /\ Len(uploads) = 2
    /\ \A i \in Legs : result[1].uploads[i].error = FetchMessage
    /\ Len(emitted) < NumChunks
    /\ downloadAborted

\* What C7 promises once the uploads are gone: the source body keeps
\* delivering to its end, the local file then finishes, transload() then
\* returns, with the uploads' errors, the session md5 and the whole file.
C7_ResultAfterDrain ==
    /\ body = "flowing" => (ENABLED BodyData \/ ENABLED BodyEnd)
    /\ (body = "ended" /\ pc = "running") =>
          (ENABLED FileFinishes \/ ENABLED Return)
    /\ pc = "returned" =>
          /\ \A i \in Legs : result[1].uploads[i].error # Undefined
          /\ calculateMD5 => result[1].md5 = Digest(SourceChunks)
          /\ fileWritten = SourceChunks
          /\ result[1].local[1].size = KnownLength

\* C7 as stated: when every upload has failed and saveToLocalPath is set,
\* the download is not cancelled and not left paused, and the result
\* transload() returns has the uploads' errors, the session md5 and a local
\* file with every chunk.
C7_AllFailedSaveDrains ==
    (Started /\ saveToLocalPath /\ AllRejected) =>
        /\ ~downloadAborted
        /\ body \in {"flowing", "ended"}
        /\ C7_ResultAfterDrain

\* C7 amended: the same for as long as the source body itself has not
\* errored.
C7_AllFailedSaveDrainsUnlessSourceErrors ==
    (Started /\ saveToLocalPath /\ AllRejected) =>
        /\ body # "errored" => (~downloadAborted /\ body \in {"flowing", "ended"})
        /\ C7_ResultAfterDrain

\* C7 witness: both uploads failed before the source had sent everything,
\* one of them while stalled (the source was paused); the source went on to
\* its end and transload() returned with md5 and local file.
C7_Witness ==
    /\ pc = "returned"
    /\ saveToLocalPath
    /\ calculateMD5
    /\ Len(uploads) = 2
    /\ AllRejected
    /\ \A i \in Legs : Len(SourcePart(uploads[i].written)) < NumChunks
    /\ \E i \in Legs : Occupancy(uploads[i]) >= HighWaterMark
    /\ result[1].md5 = Digest(SourceChunks)

\* C8: an upload that settled without error reports uploadedByes equal to
\* its size, and its size is the content-length plus its randomBytesCount.
C8_SuccessUploadedDeclaredSize ==
    \A i \in Legs : Fulfilled(i) =>
        /\ uploads[i].result[1].size =
               KnownLength + ConfigRandomBytes(inputs[i])
        /\ uploads[i].result[1].uploadedByes = uploads[i].result[1].size

\* C9: what an upload's stream was given is an initial segment of what the
\* source has emitted, chunk by chunk, followed at most by the upload's own
\* random suffix, and then only after the whole source, at finalization.
C9_WrittenIsPrefixOfSource ==
    \A i \in Legs :
        LET w == uploads[i].written IN
        /\ IsPrefix(SourcePart(w), emitted)
        /\ isStreamAlive(uploads[i]) => SourcePart(w) = emitted
        /\ w # SourcePart(w) =>
              /\ w = Append(emitted, RandomChunk(i))
              /\ uploads[i].ended
              /\ body = "ended"

\* C9 witness: one upload died after the first chunk and saw only that
\* prefix, the other one has every chunk and its random suffix.
C9_Witness ==
    /\ Len(uploads) = 2
    /\ ~isStreamAlive(uploads[1])
    /\ uploads[1].written = <<SourceChunks[1]>>
    /\ uploads[2].written = Append(SourceChunks, RandomChunk(2))

\* C10: the result has one entry per upload config, in the order of the
\* input list, each with the uploadUrl of its config.
C10_ResultsInInputOrder ==
    pc = "returned" =>
        /\ DOMAIN result[1].uploads = 1..Len(inputs)
        /\ \A i \in 1..Len(inputs) :
              result[1].uploads[i].uploadUrl = ConfigUrl(inputs[i])

\* C10 witness: two different configs, the first upload failed and the
\* second succeeded, and transload() returned.
C10_Witness ==
    /\ pc = "returned"
    /\ Len(inputs) = 2
    /\ inputs[1] # inputs[2]
    /\ result[1].uploads[1].error # Undefined
    /\ result[1].uploads[2].error = Undefined

\* C11: a failed upload contributes a result with response null, an error
\* message and no md5, at whatever point of the transfer it failed.
C11_FailedResultHasNoMd5 ==
    \A i \in Legs :
        Rejected(i) =>
            /\ uploads[i].result[1].response = "null"
            /\ uploads[i].result[1].error # Undefined
            /\ uploads[i].result[1].md5 = NoMd5

\* C12: when saveToLocalPath is configured and transload() has returned, the
\* local file holds every chunk the source emitted, in source order,
\* whatever became of the uploads: its size is the source content-length and
\* its content is the content hashed into result.md5.
C12_LocalFileIsSource ==
    (pc = "returned" /\ saveToLocalPath) =>
        /\ fileWritten = emitted
        /\ fileWritten = SourceChunks
        /\ SumLen(fileWritten) = KnownLength
        /\ result[1].local = <<[path |-> "saveToLocalPath", size |-> KnownLength]>>
        /\ calculateMD5 => result[1].md5 = Digest(fileWritten)

\* transload() returned a saved, hashed file although an upload died before
\* it was given the whole source.
C12_Witness ==
    /\ pc = "returned"
    /\ saveToLocalPath
    /\ calculateMD5
    /\ \E i \in Legs : Rejected(i) /\ Len(uploads[i].written) < NumChunks

\* C13: for every successful upload with randomBytesCount = 0, with
\* calculateMD5 enabled, the chunks fed to the upload's hash are the chunks
\* fed to the session hash, and the md5 of the upload's result is the md5 of
\* the session's result.
C13_LegMd5IsSessionMd5 ==
    (pc = "returned" /\ calculateMD5) =>
        \A i \in Legs :
            (Fulfilled(i) /\ uploads[i].randomBytesCount = 0) =>
                /\ uploads[i].md5Fed = md5Hash
                /\ result[1].uploads[i].md5 = result[1].md5

\* C14: the result transload() returns has the session md5 if and only if
\* calculateMD5 is enabled and the source had run to its end when
\* transload() returned (it is then the digest of the whole source); it has
\* none when the source was cancelled or had errored.
C14_SessionMd5IffSourceEnded ==
    [][(pc = "running" /\ pc' = "returned") =>
          /\ (result'[1].md5 # NoMd5) <=> (calculateMD5 /\ body = "ended")
          /\ result'[1].md5 # NoMd5 => result'[1].md5 = Digest(SourceChunks)
          /\ body = "errored" => result'[1].md5 = NoMd5]_vars

\* transload() returned without md5, with calculateMD5 enabled, after the
\* source had been hashed in part and then failed.
C14_Witness ==
    /\ pc = "returned"
    /\ calculateMD5
    /\ body = "errored"
    /\ md5Hash # <<>>
    /\ result[1].md5 = NoMd5

\* Upload i settles (its promise resolves or rejects) in this step.
Settles(i) == uploads[i].promise = "pending" /\ uploads'[i].promise # "pending"

\* The Uploads emitter emitted a signal of this type in the last callback.
Emitted(type) == \E k \in 1..Len(signals) : signals[k].type = type

\* C15: whenever the last live upload stops being alive while the source is
\* open, because its request failed, was aborted by the idle timer or
\* completed, 'unusable' is emitted.
C15_AllDeadEmitsUnusable ==
    [][(/\ body \in {"flowing", "paused"}
        /\ \E i \in Legs : Settles(i)
        /\ \A i \in Legs : ~isStreamAlive(uploads'[i]))
          => Emitted("unusable")']_vars

\* C16: whenever a stalled upload that had the source paused drains or
\* stops being alive, and the source did not fail in that step, 'unstuck' or
\* 'unusable' is emitted (so that the paused source is woken up).
C16_StalledLegEndEmitsSignal ==
    [][\A i \in Legs :
          (/\ body = "paused"
           /\ body' # "errored"
           /\ Stalled(uploads[i])
           /\ ~Stalled(uploads'[i]))
             => (Emitted("unstuck")' \/ Emitted("unusable")')]_vars

\* C17: when transload() returns, the source has ended or has been
\* cancelled; it does not return while the download is flowing or paused.
C17_ReturnsWithSourceClosed ==
    [][(pc = "running" /\ pc' = "returned") => body' \in {"ended", "errored"}]_vars

\* Upload i gets its 'drain' in this step: the stream owed one, owes none
\* any more and is still alive.
Drains(i) ==
    /\ uploads[i].needDrain
    /\ ~uploads'[i].needDrain
    /\ isStreamAlive(uploads'[i])

\* C18 as stated: on the 'drain' of an upload its idle timer is re-armed,
\* the upload is active again and 'unstuck' is emitted for it.
C18_DrainRearmsTimer ==
    [][\A i \in Legs :
          Drains(i) =>
              /\ uploads'[i].timer
              /\ ~Stalled(uploads'[i])
              /\ Emitted("unstuck")']_vars

\* C18 amended: on the 'drain' of an upload its idle timer is cleared, the
\* upload is active again and 'unstuck' is emitted with the index of the
\* upload.
C18_DrainClearsTimer ==
    [][\A i \in Legs :
          Drains(i) =>
              /\ ~uploads'[i].timer
              /\ ~Stalled(uploads'[i])
              /\ signals' = <<Signal("unstuck", uploads[i].index)>>]_vars

\* The only upload has just drained: with one upload 'unstuck' can only
\* come from the 'drain' listener.
C18_Witness ==
    /\ Len(uploads) = 1
    /\ signals = <<Signal("unstuck", 0)>>
    /\ isStreamAlive(uploads[1])
    /\ ~uploads[1].needDrain
    /\ ~uploads[1].timer
    /\ Occupancy(uploads[1]) = 0

\* An upload is done: its promise has settled or its stream was destroyed.
Done(u) == u.promise # "pending" \/ u.destroyed

\* C19: once an upload is done, its hash, its uploadedByes and its buffer
\* do not change any more; finalizeAll in particular neither appends the
\* random suffix to, nor counts bytes for, nor digests the hash of an
\* upload that is already dead.
C19_DoneLegIsFrozen ==
    [][\A i \in Legs :
          Done(uploads[i]) =>
              /\ uploads'[i].md5Fed = uploads[i].md5Fed
              /\ uploads'[i].md5Result = uploads[i].md5Result
              /\ uploads'[i].uploadedByes = uploads[i].uploadedByes
              /\ uploads'[i].written = uploads[i].written]_vars

\* C20: while an upload is stalled (a write returned false and the 'drain'
\* it owes has not come) its idle timer is not armed, so that no idle
\* timeout aborts a stalled upload.
C20_StalledLegHasNoTimer ==
    \A i \in Legs : Stalled(uploads[i]) => ~uploads[i].timer

\* C21: in every reachable state an upload that was finalized, was
\* aborted, has settled or is otherwise done has no armed idle timer.
C21_DoneLegHasNoTimer ==
    \A i \in Legs :
        (Done(uploads[i]) \/ uploads[i].aborted \/ uploads[i].ended)
            => ~uploads[i].timer

\* The idle timer of upload i fires in this step: the timer was armed, is
\* not any more, and the abort signal of the upload, still pending, trips.
TimerFired(i) ==
    /\ uploads[i].timer
    /\ ~uploads'[i].timer
    /\ ~uploads[i].aborted
    /\ uploads'[i].aborted
    /\ uploads'[i].promise = "pending"

\* C22: when the idle timer of an upload fires, only the abort signal of
\* that upload trips: nothing else of it, nothing of any other upload and
\* nothing of the download changes; the upload's request then fails, and
\* its promise rejects with the abort message before anything else happens.
C22_TimerAbortsOnlyItsLeg ==
    /\ [][\A i \in Legs :
             TimerFired(i) =>
                 /\ uploads' = [uploads EXCEPT ![i].timer = FALSE,
                                               ![i].aborted = TRUE]
                 /\ UNCHANGED <<body, downloadAborted, pc, result>>]_vars
    /\ [][\A i \in Legs :
             (AbortPending(i) /\ ~uploads[i].destroyed) =>
                 /\ Rejected(i)'
                 /\ uploads'[i].result[1].response = "null"
                 /\ uploads'[i].result[1].error = AbortMessage]_vars
    /\ [](\A i \in Legs : AbortPending(i) => ENABLED UploadRejects(i))

\* The idle timer of one upload has fired while another upload is alive,
\* pending and holds data.
C22_Witness ==
    \E i, j \in Legs :
        /\ i # j
        /\ AbortPending(i)
        /\ ~uploads[i].destroyed
        /\ uploads[j].promise = "pending"
        /\ isStreamAlive(uploads[j])
        /\ ~uploads[j].aborted
        /\ uploads[j].written # <<>>

\* C23: on every rejection of an upload's promise the stream of that
\* upload is destroyed and exactly one signal is emitted: 'unusable' if no
\* upload is alive at that moment, 'unstuck' with the index of the rejected
\* upload otherwise.
C23_RejectionEmitsOneSignal ==
    [][\A i \in Legs :
          (Settles(i) /\ Rejected(i)') =>
              /\ ~isStreamAlive(uploads'[i])
              /\ signals' =
                    IF \A j \in Legs \ {i} : ~isStreamAlive(uploads[j])
                    THEN <<Signal("unusable", 0 - 1)>>
                    ELSE <<Signal("unstuck", uploads[i].index)>>]_vars

\* An upload has just been rejected while an upload of another index is
\* alive: 'unstuck' was emitted with the index of the rejected one.
C23_Witness ==
    \E i, j \in Legs :
        /\ Rejected(i)
        /\ uploads[j].index # uploads[i].index
        /\ isStreamAlive(uploads[j])
        /\ signals = <<Signal("unstuck", uploads[i].index)>>

\* The sequence holds a random suffix (suffixes are the negative chunks).
HasSuffix(w) == \E k \in 1..Len(w) : w[k] < 0

\* C24: the random suffix is injected only when the source ends cleanly.
\* Until then no stream and no hash holds a suffix and no upload hash is
\* digested (so none is when the source errors or is cancelled); at source
\* end every live upload with randomBytesCount gets its suffix, once; a
\* stream that holds a suffix holds every source chunk and then the
\* suffix, which is counted in uploadedByes and fed to the hash.
C24_SuffixOnlyAtCleanEnd ==
    /\ [](\A i \in Legs :
             LET u == uploads[i]
             IN  /\ body # "ended" =>
                        /\ ~HasSuffix(u.written)
                        /\ ~HasSuffix(u.md5Fed)
                        /\ u.md5Result = NoMd5
                 /\ HasSuffix(u.written) =>
                        /\ u.randomBytesCount > 0
                        /\ u.written = Append(SourceChunks, RandomChunk(i))
                        /\ u.uploadedByes = KnownLength + u.randomBytesCount
                        /\ calculateMD5 => u.md5Fed = u.written)
    /\ [][(body # "ended" /\ body' = "ended") =>
             \A i \in Legs :
                 isStreamAlive(uploads[i]) =>
                     uploads'[i].written =
                         IF uploads[i].randomBytesCount > 0
                         THEN Append(uploads[i].written, RandomChunk(i))
                         ELSE uploads[i].written]_vars

\* The source has ended and a live upload with randomBytesCount holds the
\* whole source and its suffix, hashed.
C24_Witness ==
    /\ body = "ended"
    /\ calculateMD5
    /\ \E i \in Legs :
          /\ uploads[i].randomBytesCount > 0
          /\ uploads[i].promise = "pending"
          /\ uploads[i].written = Append(SourceChunks, RandomChunk(i))
          /\ uploads[i].md5Result = Digest(uploads[i].written)

\* C25: the index of every upload is its (0-based) position in the input
\* list, also when the same upload config object is at several positions.
C25_IndexIsPosition ==
    \A i \in Legs : uploads[i].index = i - 1

\* C26: between the broadcasts of the source chunks, until the uploads are
\* finalized, every live upload has uploadedByes equal to the session's
\* bytesDownloaded and every dead upload has at most that.
C26_UploadedTracksDownloaded ==
    body # "ended" =>
        \A i \in Legs :
            /\ isStreamAlive(uploads[i]) =>
                   uploads[i].uploadedByes = bytesDownloaded
            /\ ~isStreamAlive(uploads[i]) =>
                   uploads[i].uploadedByes <= bytesDownloaded

\* After a broadcast that a stalled upload overflowed on, the download is
\* paused with a live upload level with it and a dead upload behind it.
C26_Witness ==
    /\ body = "paused"
    /\ \E i, j \in Legs :
          /\ Stalled(uploads[i])
          /\ uploads[i].uploadedByes = bytesDownloaded
          /\ ~isStreamAlive(uploads[j])
          /\ uploads[j].uploadedByes < bytesDownloaded

\* C27: with exactly one upload, the write that overflows the stream
\* pauses the download and no further chunk is written until the upload
\* has drained or died: a stalled upload never meets a flowing download,
\* every chunk is written to a stream that is below its highWaterMark and
\* owes no 'drain', and the occupancy of the stream stays below the
\* highWaterMark plus the last chunk written.
C27_OneLegOverflowsOnce ==
    /\ [](Len(uploads) = 1 =>
             LET u == uploads[1]
             IN  /\ Stalled(u) => body # "flowing"
                 /\ u.written # <<>> =>
                        Occupancy(u) < HighWaterMark
                                         + ByteLength(u, u.written[Len(u.written)]))
    /\ [][(Len(uploads) = 1 /\ Len(uploads'[1].written) > Len(uploads[1].written)) =>
             /\ ~uploads[1].needDrain
             /\ Occupancy(uploads[1]) < HighWaterMark]_vars

\* The only upload is stalled at its highWaterMark with the download
\* paused.
C27_Witness ==
    /\ Len(uploads) = 1
    /\ Stalled(uploads[1])
    /\ uploads[1].promise = "pending"
    /\ Occupancy(uploads[1]) >= HighWaterMark
    /\ body = "paused"
    /\ Len(emitted) < NumChunks

\* C28: when transload() has returned, every upload has produced its
\* result; the stream of an upload that has produced its result is
\* destroyed and its idle timer is not armed, at the return and after any
\* later event.
C28_SettledLegIsTornDown ==
    /\ pc = "returned" => AllSettled
    /\ \A i \in Legs :
          uploads[i].promise # "pending" =>
              /\ uploads[i].destroyed
              /\ ~uploads[i].timer

\* transload() returned before the source ended, and the source then went
\* on to its end: the result has no md5 although one was digested later.
C28_Witness ==
    /\ pc = "returned"
    /\ calculateMD5
    /\ body = "ended"
    /\ result[1].md5 = NoMd5
    /\ md5Result # NoMd5
    /\ \E i \in Legs : Len(uploads[i].written) < Len(emitted)

====
